---- MODULE Spec2Model ----
(***************************************************************************)
(* Pipelined Fast-HotStuff proof of concept (pfhs): the per-validator view *)
(* loop of src/endpoint.rs, the certificate algebra of src/certificates.rs *)
(* and the signed-message layer of src/message.rs.                         *)
(*                                                                         *)
(* Validator i of a cluster built by setup_cluster has identity.index = i  *)
(* and its public key is written i.  Signatures are ideal: a signature is  *)
(* the bag of (signer, signed bytes) pairs it aggregates, so a signature   *)
(* verifies exactly against the key and the bytes it was made from, and    *)
(* nobody can make a signature of a key it does not hold.                  *)
(***************************************************************************)
EXTENDS Integers, Sequences, FiniteSets, Bags, TLC

VARIABLES
    n,                   \* quorum size of the cluster (peers.len() + 1)
    correct,             \* the validators whose thread runs start_consensus
    byzantine,           \* the validators controlled by the adversary
    current_view,        \* Endpoint.current_view, per validator
    pc,                  \* where each validator's thread is
    self_vote,           \* Endpoint.self_vote, per validator
    recent_views,        \* Endpoint.recent_views, per validator
    votes_received,      \* primary_logic's vote tally, per validator
    new_views_received,  \* primary_logic's NewView tally, per validator
    chan,                \* chan[<<s, r>>]: the mpsc channel from s to r
    executed,            \* the Views each validator passed to execute, in order
    votes_created,       \* the Votes each validator signed, in order
    proposals,           \* the block messages each validator broadcast, in order
    probe                \* the input of the pure-function specifications

vars == << n, correct, byzantine, current_view, pc, self_vote, recent_views,
           votes_received, new_views_received, chan, executed, votes_created,
           proposals, probe >>

(***************************************************************************)
(* Bounds of the model and constants of the program.                       *)
(***************************************************************************)

\* start_consensus runs views 1..=200; the model runs views 1..LastView.
LastView == 4

\* The QCs given to QC::valid name at most MaxSigners signers.
MaxSigners == 3

\* primary_for_view is asked about the views 1..MaxView.
MaxView == 9

\* The thresholds are evaluated for quorums of 1..MaxQuorum validators.
MaxQuorum == 10

\* The commit rule is applied to queues of at most MaxQueue views.
MaxQueue == 4

\* examples/cluster.rs builds the cluster with setup_cluster(1).
F == 1

\* The public key of an identity outside every quorum: the first index that
\* setup_cluster(F) does not hand out.
Outsider == 3 * F + 1

\* The all-zero private key that signs the genesis marker.
ZeroKey == 0 - 1

NoneValue == [tag |-> "None"]

Some(x) == [tag |-> "Some", value |-> x]

(***************************************************************************)
(* Sequences helpers.                                                      *)
(***************************************************************************)

SeqToSet(s) == { s[k] : k \in 1..Len(s) }

Contains(s, x) == \E k \in 1..Len(s) : s[k] = x

Last(s) == s[Len(s)]

Distinct(s) == \A j, k \in 1..Len(s) : j # k => s[j] # s[k]

(***************************************************************************)
(* crypto.rs and the bls_signatures calls.                                 *)
(***************************************************************************)

\* PrivateKey::sign: the signature of `bytes` under the key of `signer`.
Sign(signer, bytes) == SetToBag({ [signer |-> signer, bytes |-> bytes] })

\* A signature that belongs to no key and no message.
JunkSignature == SetToBag({ [signer |-> ZeroKey, bytes |-> << "junk" >>] })

RECURSIVE AggregateFrom(_, _)
AggregateFrom(sigs, k) ==
    IF k > Len(sigs) THEN EmptyBag ELSE sigs[k] (+) AggregateFrom(sigs, k + 1)

\* aggregate_signatures: the product of the signatures (defined for a
\* non-empty list; the callers .expect() it).
aggregate_signatures(sigs) == AggregateFrom(sigs, 1)

\* bls_signatures::verify_messages(signature, messages, public_keys).
verify_messages(signature, messages, public_keys) ==
    /\ Len(messages) > 0
    /\ Len(messages) = Len(public_keys)
    /\ Distinct(messages)
    /\ signature = aggregate_signatures(
           [k \in 1..Len(messages) |-> Sign(public_keys[k], messages[k])])

\* signer.public_key().as_bytes() followed by borsh(payload).
SignedBytes(public_key, payload) == << public_key, payload >>

\* The genesis marker: the zero key's signature of the empty message.
GenesisMarker == Sign(ZeroKey, << >>)

(***************************************************************************)
(* message.rs.                                                             *)
(***************************************************************************)

Vote(view, blockhash) == [view |-> view, blockhash |-> blockhash]

MessageType_Vote(vote) == [tag |-> "Vote", vote |-> vote]

MessageType_Block(block) == [tag |-> "Block", block |-> block]

MessageType_NewView(eta) == [tag |-> "NewView", eta |-> eta]

\* SignedMessage::verify.
verify(msg) ==
    verify_messages(msg.signature,
                    << SignedBytes(msg.transmitter, msg.message_type) >>,
                    << msg.transmitter >>)

\* SignedMessage::block.
SignedMessage_block(block, signer) ==
    [ message_type |-> MessageType_Block(block),
      transmitter  |-> signer,
      signature    |-> Sign(signer, SignedBytes(signer, MessageType_Block(block))) ]

\* SignedMessage::vote.
SignedMessage_vote(vote, signer) ==
    [ message_type |-> MessageType_Vote(vote),
      transmitter  |-> signer,
      signature    |-> Sign(signer, SignedBytes(signer, MessageType_Vote(vote))) ]

(***************************************************************************)
(* certificates.rs.                                                        *)
(***************************************************************************)

Genesis == [tag |-> "Genesis"]

Happy(qc) == [tag |-> "Happy", qc |-> qc]

Sad(aggqc) == [tag |-> "Sad", aggqc |-> aggqc]

\* What the producer of a certificate signs: its key, then the bytes of the
\* aggregated signature.
SignatureBytes(signature) == [tag |-> "SignatureBytes", signature |-> signature]

ProducerBytes(signer, aggregated_signature) ==
    SignedBytes(signer, SignatureBytes(aggregated_signature))

\* QuorumCertificate::from_votes aggregating all signatures but the first.
from_votes_but_first(vote, vote_signatures, signers, signer) ==
    LET aggregated_signature == AggregateFrom(vote_signatures, 2)
    IN  Happy([ vote                 |-> vote,
                aggregated_signature |-> aggregated_signature,
                signers              |-> signers,
                signature            |-> Sign(signer,
                                              ProducerBytes(signer, aggregated_signature)),
                producer             |-> signer ])

\* QuorumCertificate::from_votes.
from_votes(vote, vote_signatures, signers, signer) ==
    LET aggregated_signature == aggregate_signatures(vote_signatures)
    IN  Happy([ vote                 |-> vote,
                aggregated_signature |-> aggregated_signature,
                signers              |-> signers,
                signature            |-> Sign(signer,
                                              ProducerBytes(signer, aggregated_signature)),
                producer             |-> signer ])

\* QC::valid's first closure with >= where the code has >.
QC_is_supermajority_ge(qc, quorum) == Len(qc.signers) >= (2 * Len(quorum)) \div 3

\* QC::valid, first closure.
QC_is_supermajority(qc, quorum) == Len(qc.signers) > (2 * Len(quorum)) \div 3

\* QC::valid, second closure.
QC_signers_in_quorum(qc, quorum) ==
    \A k \in 1..Len(qc.signers) : Contains(quorum, qc.signers[k])

\* QC::valid, third closure.
QC_valid_aggregated_signature(qc) ==
    LET vote     == MessageType_Vote(qc.vote)
        messages == [k \in 1..Len(qc.signers) |-> SignedBytes(qc.signers[k], vote)]
    IN  verify_messages(qc.aggregated_signature, messages, qc.signers)

\* QC::valid.
QC_valid(qc, quorum) ==
    /\ QC_is_supermajority(qc, quorum)
    /\ QC_signers_in_quorum(qc, quorum)
    /\ QC_valid_aggregated_signature(qc)

\* The embedded QC with the greatest vote.view above 0, the first such in
\* list order (AggQC::find_high_qc and the loop of valid_high_qc).
find_high_qc(aggqc) ==
    LET qcs == aggqc.qcs
        views == { qcs[k].vote.view : k \in 1..Len(qcs) } \ {0}
    IN  IF views = {} THEN NoneValue
        ELSE LET top == CHOOSE v \in views : \A w \in views : w <= v
                 first == CHOOSE k \in 1..Len(qcs) :
                              /\ qcs[k].vote.view = top
                              /\ \A j \in 1..(k - 1) : qcs[j].vote.view # top
             IN  Some(qcs[first])

\* QuorumCertificate::from_newviews.
from_newviews(etas, eta_signatures, signers, signer) ==
    LET happy == SelectSeq(etas, LAMBDA eta : eta.certificate.tag = "Happy")
        qcs == [k \in 1..Len(happy) |-> happy[k].certificate.qc]
        aggregated_signature == aggregate_signatures(eta_signatures)
    IN  Sad([ qcs                  |-> qcs,
              aggregated_signature |-> aggregated_signature,
              signers              |-> signers,
              signature            |-> Sign(signer,
                                            ProducerBytes(signer, aggregated_signature)),
              producer             |-> signer ])

\* AggQC::valid, first closure.
AggQC_is_supermajority(aggqc, quorum) ==
    Len(aggqc.signers) > (2 * Len(quorum)) \div 3

\* AggQC::valid, fourth closure: signers zipped with qcs.
AggQC_valid_aggregated_signature(aggqc) ==
    LET m == IF Len(aggqc.signers) < Len(aggqc.qcs)
             THEN Len(aggqc.signers) ELSE Len(aggqc.qcs)
        messages == [k \in 1..m |->
                        SignedBytes(aggqc.signers[k],
                                    SignatureBytes(aggqc.qcs[k].aggregated_signature))]
    IN  verify_messages(aggqc.aggregated_signature, messages, aggqc.signers)

\* AggQC::valid panics in valid_high_qc (high_qc.unwrap()) when the first two
\* closures hold and no embedded QC has a view above 0.
AggQC_valid_panics(aggqc, quorum) ==
    /\ AggQC_is_supermajority(aggqc, quorum)
    /\ QC_signers_in_quorum(aggqc, quorum)
    /\ find_high_qc(aggqc) = NoneValue

\* AggQC::valid without the validity of the high QC.
AggQC_valid_any_high_qc(aggqc, quorum) ==
    /\ AggQC_is_supermajority(aggqc, quorum)
    /\ QC_signers_in_quorum(aggqc, quorum)
    /\ find_high_qc(aggqc) # NoneValue
    /\ AggQC_valid_aggregated_signature(aggqc)

\* AggQC::valid, where it returns.
AggQC_valid(aggqc, quorum) ==
    /\ AggQC_is_supermajority(aggqc, quorum)
    /\ QC_signers_in_quorum(aggqc, quorum)
    /\ find_high_qc(aggqc) # NoneValue
    /\ QC_valid(find_high_qc(aggqc).value, quorum)
    /\ AggQC_valid_aggregated_signature(aggqc)

(***************************************************************************)
(* cluster.rs: identities and channel wiring.                              *)
(***************************************************************************)

\* Every index a cluster of this model can hold.
Validators == 0..(3 * F)

\* The members of the running cluster.
Cluster == 0..(n - 1)

\* The peer table setup_cluster builds for validator i: every other
\* validator, in index order.
PeersOf(i) == [k \in 1..(n - 1) |-> IF k - 1 < i THEN k - 1 ELSE k]

\* Endpoint::new_genesis: quorum = the peers' keys, then the own key.
quorum(i) == Append(PeersOf(i), i)

\* Endpoint::quorum_size.
quorum_size(i) == Len(PeersOf(i)) + 1

\* Endpoint::is_supermajority with >= where the code has >.
is_supermajority_ge(i, num) == num >= (2 * quorum_size(i)) \div 3

\* Endpoint::is_supermajority.
is_supermajority(i, num) == num > (2 * quorum_size(i)) \div 3

OurTurn == [tag |-> "OurTurn"]

Peer(public_key) == [tag |-> "Peer", public_key |-> public_key]

\* The k-th element of (0..).filter(|i| *i != self.identity.index).
ZipIndex(i, k) == IF k - 1 < i THEN k - 1 ELSE k

\* primary_for_view taking the index from view + 1.
primary_for_view_next(i, view) ==
    LET primary_index == (view + 1) % quorum_size(i)
    IN  IF primary_index = i THEN OurTurn
        ELSE Peer(PeersOf(i)[CHOOSE k \in 1..Len(PeersOf(i)) :
                                 ZipIndex(i, k) = primary_index])

\* Endpoint::primary_for_view.
primary_for_view(i, view) ==
    LET primary_index == view % quorum_size(i)
    IN  IF primary_index = i THEN OurTurn
        ELSE Peer(PeersOf(i)[CHOOSE k \in 1..Len(PeersOf(i)) :
                                 ZipIndex(i, k) = primary_index])

(***************************************************************************)
(* endpoint.rs: state after setup_cluster and Endpoint::new_genesis.       *)
(***************************************************************************)

Channels == { c \in Validators \X Validators : c[1] # c[2] }

\* The empty HashMap<Vote, (Vec<Signature>, IndexSet<PublicKey>)>.
NoVotes == [v \in {} |-> [sigs |-> << >>, peers |-> << >>]]

NoNewViews == [etas |-> << >>, sigs |-> << >>, peers |-> << >>]

\* The cluster of `size` validators of which those in `running` run
\* start_consensus and those in `adversaries` are controlled by the adversary.
InitCluster(size, running, adversaries) ==
    /\ n = size
    /\ correct = running
    /\ byzantine = adversaries
    /\ current_view = [i \in Validators |-> 0]
    /\ pc = [i \in Validators |-> "new"]
    /\ self_vote = [i \in Validators |-> NoneValue]
    /\ recent_views = [i \in Validators |-> << >>]
    /\ votes_received = [i \in Validators |-> NoVotes]
    /\ new_views_received = [i \in Validators |-> NoNewViews]
    /\ chan = [c \in Channels |-> << >>]
    /\ executed = [i \in Validators |-> << >>]
    /\ votes_created = [i \in Validators |-> << >>]
    /\ proposals = [i \in Validators |-> << >>]

\* The validators that run the code and nothing else.
Honest == correct \ byzantine

View(height, leader, block, blockhash) ==
    [height |-> height, leader |-> leader, block |-> block, blockhash |-> blockhash]

Block(transactions, certificate, last_blockhash, view) ==
    [ transactions   |-> transactions,
      certificate    |-> certificate,
      last_blockhash |-> last_blockhash,
      view           |-> view ]

\* Endpoint::broadcast leaving out the first peer of the table.
broadcast_but_first(ch, i, message) ==
    [c \in Channels |->
        IF c[1] = i /\ Contains(Tail(PeersOf(i)), c[2])
        THEN Append(ch[c], message) ELSE ch[c]]

\* Endpoint::broadcast: one send to every peer.
broadcast(ch, i, message) ==
    [c \in Channels |->
        IF c[1] = i /\ Contains(PeersOf(i), c[2]) THEN Append(ch[c], message) ELSE ch[c]]

\* Endpoint::send_to sending to every peer.
send_to_every_peer(ch, i, peer, message) == broadcast(ch, i, message)

\* Endpoint::send_to.
send_to(ch, i, peer, message) ==
    [ch EXCEPT ![<< i, peer >>] = Append(@, message)]

(***************************************************************************)
(* start_consensus: `for view in 1..=200`.  A handler's return, the next   *)
(* iteration's assignment of current_view and the entry of the next        *)
(* handler touch the validator's own state only; they are one step with    *)
(* the turn of the loop that made the handler return.                      *)
(***************************************************************************)

\* primary_logic: the tally seeded from self_vote.take().
SeededVotes(slot) ==
    IF slot.tag = "Some" /\ slot.value.message_type.tag = "Vote"
    THEN slot.value.message_type.vote :>
             [sigs |-> << slot.value.signature >>, peers |-> << slot.value.transmitter >>]
    ELSE NoVotes

\* After the last view: recent_views.back().unwrap() panics on an empty queue.
AfterLoop(views) == IF views = << >> THEN "panic" ELSE "done"

\* Validator i enters `view`, its primary_logic reading self_vote without
\* taking it.
EnterView_keeps_slot(i, view, slot) ==
    /\ current_view' = [current_view EXCEPT ![i] = view]
    /\ new_views_received' = [new_views_received EXCEPT ![i] = NoNewViews]
    /\ self_vote' = [self_vote EXCEPT ![i] = slot]
    /\ IF primary_for_view(i, view) = OurTurn
       THEN /\ pc' = [pc EXCEPT ![i] = "primary"]
            /\ votes_received' = [votes_received EXCEPT ![i] = SeededVotes(slot)]
       ELSE /\ pc' = [pc EXCEPT ![i] = "nonprimary"]
            /\ votes_received' = [votes_received EXCEPT ![i] = NoVotes]

\* Validator i enters `view` with `slot` in self_vote.
EnterView(i, view, slot) ==
    /\ current_view' = [current_view EXCEPT ![i] = view]
    /\ new_views_received' = [new_views_received EXCEPT ![i] = NoNewViews]
    /\ IF primary_for_view(i, view) = OurTurn
       THEN /\ pc' = [pc EXCEPT ![i] = "primary"]
            /\ votes_received' = [votes_received EXCEPT ![i] = SeededVotes(slot)]
            /\ self_vote' = [self_vote EXCEPT ![i] = NoneValue]
       ELSE /\ pc' = [pc EXCEPT ![i] = "nonprimary"]
            /\ votes_received' = [votes_received EXCEPT ![i] = NoVotes]
            /\ self_vote' = [self_vote EXCEPT ![i] = slot]

\* The loop entering the view after the next when a handler returns.
Return_skips_a_view(i, slot, views) ==
    IF current_view[i] < LastView
    THEN EnterView(i, current_view[i] + 2, slot)
    ELSE /\ pc' = [pc EXCEPT ![i] = AfterLoop(views)]
         /\ votes_received' = [votes_received EXCEPT ![i] = NoVotes]
         /\ new_views_received' = [new_views_received EXCEPT ![i] = NoNewViews]
         /\ self_vote' = [self_vote EXCEPT ![i] = slot]
         /\ UNCHANGED current_view

\* The handler of current_view[i] returns with `slot` in self_vote and
\* `views` in recent_views: the loop goes on, or ends.
Return(i, slot, views) ==
    IF current_view[i] < LastView
    THEN EnterView(i, current_view[i] + 1, slot)
    ELSE /\ pc' = [pc EXCEPT ![i] = AfterLoop(views)]
         /\ votes_received' = [votes_received EXCEPT ![i] = NoVotes]
         /\ new_views_received' = [new_views_received EXCEPT ![i] = NoNewViews]
         /\ self_vote' = [self_vote EXCEPT ![i] = slot]
         /\ UNCHANGED current_view

\* The thread of validator i calls start_consensus.
start_consensus(i) ==
    /\ i \in correct
    /\ pc[i] = "new"
    /\ EnterView(i, 1, self_vote[i])
    /\ UNCHANGED << n, correct, byzantine, recent_views, chan, executed,
                    votes_created, proposals, probe >>

(***************************************************************************)
(* primary_logic.                                                          *)
(***************************************************************************)

\* The block an honest leader builds from `certificate`.
ProposedBlock(i, certificate) ==
    Block(<< >>,
          certificate,
          IF recent_views[i] = << >> THEN GenesisMarker
          ELSE Last(recent_views[i]).blockhash,
          current_view[i])

\* primary_logic from "Build block with certificate" to its end: the View is
\* pushed, the block message goes to every peer, the handler returns.
Propose(i, certificate, ch) ==
    LET block == ProposedBlock(i, certificate)
        block_message == SignedMessage_block(block, i)
        views == Append(recent_views[i],
                        View(current_view[i], i, block, block_message.signature))
    IN  /\ recent_views' = [recent_views EXCEPT ![i] = views]
        /\ chan' = broadcast(ch, i, block_message)
        /\ proposals' = [proposals EXCEPT ![i] =
               Append(@, [view |-> current_view[i], message |-> block_message])]
        /\ Return(i, self_vote[i], views)

\* current_view == 1: the certificate is Genesis and nothing is collected.
primary_genesis(i) ==
    /\ i \in correct
    /\ pc[i] = "primary"
    /\ current_view[i] = 1
    /\ Propose(i, Genesis, chan)
    /\ UNCHANGED << n, correct, byzantine, executed, votes_created, probe >>

\* The Vote arm's insertion pushing the signature of a repeated vote too.
InsertVote_every_signature(tally, v, transmitter, signature) ==
    IF v \in DOMAIN tally
    THEN [tally EXCEPT ![v] =
             [sigs |-> Append(@.sigs, signature),
              peers |-> IF Contains(@.peers, transmitter) THEN @.peers
                        ELSE Append(@.peers, transmitter)]]
    ELSE tally @@ (v :> [sigs |-> << signature >>, peers |-> << transmitter >>])

\* The Vote arm's insertion into votes_received.
InsertVote(tally, v, transmitter, signature) ==
    IF v \in DOMAIN tally
    THEN [tally EXCEPT ![v] =
             IF Contains(@.peers, transmitter) THEN @
             ELSE [sigs |-> Append(@.sigs, signature),
                   peers |-> Append(@.peers, transmitter)]]
    ELSE tally @@ (v :> [sigs |-> << signature >>, peers |-> << transmitter >>])

\* The buckets the scan for most_common_vote can end on: the HashMap is
\* iterated in an arbitrary order and only a strictly greater count replaces
\* the candidate, so any bucket of maximal count can be the one.
MostCommonVotes(tally) ==
    { v \in DOMAIN tally :
        \A w \in DOMAIN tally : Len(tally[w].peers) <= Len(tally[v].peers) }

\* The Vote arm's test without its `- 1`: entered for votes of any view up
\* to the current one.
VoteIsForLastView_any(i, v) == v.view <= current_view[i]

\* The Vote arm is entered for votes of the previous view only.
VoteIsForLastView(i, v) == v.view = current_view[i] - 1

\* The NewView arm's test admitting NewViews of later views too.
NewViewIsCurrent_any(i, eta) == eta.view >= current_view[i]

\* The NewView arm is entered for NewViews of the current view only.
NewViewIsCurrent(i, eta) == eta.view = current_view[i]

\* One turn of 'message_loop in which next_message() yields `msg`; `ch` is
\* the channels once the message is taken.
PrimaryHandle(i, msg, ch) ==
    LET not_in_quorum == ~Contains(PeersOf(i), msg.transmitter)
        kind == msg.message_type.tag
        tally == IF kind = "Vote"
                 THEN InsertVote(votes_received[i], msg.message_type.vote,
                                 msg.transmitter, msg.signature)
                 ELSE votes_received[i]
        seen == Contains(new_views_received[i].peers, msg.transmitter)
        etas == IF kind = "NewView" /\ ~seen
                THEN [etas  |-> Append(new_views_received[i].etas, msg.message_type.eta),
                      sigs  |-> Append(new_views_received[i].sigs, msg.signature),
                      peers |-> Append(new_views_received[i].peers, msg.transmitter)]
                ELSE new_views_received[i]
        Ignore == /\ chan' = ch
                  /\ UNCHANGED << current_view, pc, self_vote, recent_views,
                                  votes_received, new_views_received, proposals >>
    IN  \/ /\ \/ ~verify(msg)
              \/ not_in_quorum
              \/ kind = "Block"
              \/ kind = "Vote" /\ ~VoteIsForLastView(i, msg.message_type.vote)
              \/ kind = "NewView" /\ ~NewViewIsCurrent(i, msg.message_type.eta)
           /\ Ignore
        \/ /\ verify(msg) /\ ~not_in_quorum
           /\ kind = "Vote" /\ VoteIsForLastView(i, msg.message_type.vote)
           /\ \E vote \in MostCommonVotes(tally) :
                 IF is_supermajority(i, Len(tally[vote].peers))
                 THEN Propose(i, from_votes(vote, tally[vote].sigs,
                                            tally[vote].peers, i), ch)
                 ELSE /\ chan' = ch
                      /\ votes_received' = [votes_received EXCEPT ![i] = tally]
                      /\ UNCHANGED << current_view, pc, self_vote, recent_views,
                                      new_views_received, proposals >>
        \/ /\ verify(msg) /\ ~not_in_quorum
           /\ kind = "NewView" /\ NewViewIsCurrent(i, msg.message_type.eta)
           /\ IF is_supermajority(i, Len(etas.sigs))
              THEN Propose(i, from_newviews(etas.etas, etas.sigs, etas.peers, i), ch)
              ELSE /\ chan' = ch
                   /\ new_views_received' = [new_views_received EXCEPT ![i] = etas]
                   /\ UNCHANGED << current_view, pc, self_vote, recent_views,
                                   votes_received, proposals >>

\* next_message try_recv()s the peers' channels one after the other while the
\* peers send, so the channel that yields can be any non-empty one.
primary_recv(i, peer) ==
    /\ i \in correct
    /\ pc[i] = "primary"
    /\ current_view[i] # 1
    /\ Contains(PeersOf(i), peer)
    /\ chan[<< peer, i >>] # << >>
    /\ PrimaryHandle(i, Head(chan[<< peer, i >>]),
                     [chan EXCEPT ![<< peer, i >>] = Tail(@)])
    /\ UNCHANGED << n, correct, byzantine, executed, votes_created, probe >>

\* The deadline check at the top of 'message_loop: the handler returns.
primary_timeout(i) ==
    /\ i \in correct
    /\ pc[i] = "primary"
    /\ current_view[i] # 1
    /\ Return(i, self_vote[i], recent_views[i])
    /\ UNCHANGED << n, correct, byzantine, recent_views, chan, executed,
                    votes_created, proposals, probe >>

(***************************************************************************)
(* nonprimary_logic.                                                       *)
(***************************************************************************)

\* pipeline_safe_block_qc without its first conjunct.
pipeline_safe_block_qc_stale(block, qc, view) ==
    block.view = qc.vote.view + 1

pipeline_safe_block_qc(block, qc, view) ==
    /\ block.view >= view
    /\ block.view = qc.vote.view + 1

\* pipeline_safe_block_aggqc without its second conjunct.
pipeline_safe_block_aggqc_unchained(block, aggqc, view) ==
    block.view >= view

\* Evaluated only after aggqc.valid(), so find_high_qc() is Some.
pipeline_safe_block_aggqc(block, aggqc, view) ==
    /\ block.view >= view
    /\ block.last_blockhash = find_high_qc(aggqc).value.vote.blockhash

\* The match on block.certificate with a Genesis arm that votes in any view.
Acceptable_genesis_any(i, block) ==
    LET certificate == block.certificate
    IN  CASE certificate.tag = "Genesis" -> TRUE
          [] certificate.tag = "Happy" ->
                /\ QC_valid(certificate.qc, quorum(i))
                /\ pipeline_safe_block_qc(block, certificate.qc, current_view[i])
          [] certificate.tag = "Sad" ->
                /\ AggQC_valid(certificate.aggqc, quorum(i))
                /\ pipeline_safe_block_aggqc(block, certificate.aggqc, current_view[i])

\* The match on block.certificate: TRUE where the code votes.
Acceptable(i, block) ==
    LET certificate == block.certificate
    IN  CASE certificate.tag = "Genesis" -> current_view[i] = 1
          [] certificate.tag = "Happy" ->
                /\ QC_valid(certificate.qc, quorum(i))
                /\ pipeline_safe_block_qc(block, certificate.qc, current_view[i])
          [] certificate.tag = "Sad" ->
                /\ AggQC_valid(certificate.aggqc, quorum(i))
                /\ pipeline_safe_block_aggqc(block, certificate.aggqc, current_view[i])

\* The Vote of the view after the current one.
VoteFor_next_view(i, block) == Vote(current_view[i] + 1, block.last_blockhash)

\* The Vote with the block's view where the code puts current_view.
VoteFor_block_view(i, block) == Vote(block.view, block.last_blockhash)

\* The Vote a non-primary signs for an accepted block.
VoteFor(i, block) == Vote(current_view[i], block.last_blockhash)

\* The three-chain test on the three most recent views.
commit_through_grandparent(views) ==
    /\ Len(views) >= 3
    /\ LET latest      == views[Len(views)]
           parent      == views[Len(views) - 1]
           grandparent == views[Len(views) - 2]
       IN  /\ latest.block.last_blockhash = parent.blockhash
           /\ parent.block.last_blockhash = grandparent.blockhash

\* How many views the pop_front loop takes off: up to and including the first
\* one whose blockhash is the grandparent's.
PopCount(views) ==
    IF commit_through_grandparent(views)
    THEN CHOOSE k \in 1..Len(views) :
             /\ views[k].blockhash = views[Len(views) - 2].blockhash
             /\ \A j \in 1..(k - 1) : views[j].blockhash # views[Len(views) - 2].blockhash
    ELSE 0

\* The pop_front loop executing the grandparent alone.
PoppedViews_grandparent(views) ==
    IF PopCount(views) = 0 THEN << >>
    ELSE SubSeq(views, PopCount(views), PopCount(views))

\* The views the pop_front loop hands to execute, in order.
PoppedViews(views) == SubSeq(views, 1, PopCount(views))

\* What the pop_front loop leaves in recent_views.
KeptViews(views) == SubSeq(views, PopCount(views) + 1, Len(views))

\* The code from "Send vote to next primary" to the end of nonprimary_logic:
\* the vote is signed, the View is pushed, the vote goes to the next primary
\* (or into self_vote), the commit rule runs and the handler returns.
Accept(i, msg, ch) ==
    LET block == msg.message_type.block
        signed_vote == SignedMessage_vote(VoteFor(i, block), i)
        views == Append(recent_views[i],
                        View(block.view, msg.transmitter, block, msg.signature))
        next == primary_for_view(i, current_view[i] + 1)
    IN  /\ chan' = IF next = OurTurn THEN ch
                   ELSE send_to(ch, i, next.public_key, signed_vote)
        /\ votes_created' = [votes_created EXCEPT ![i] =
               Append(@, [vote        |-> signed_vote.message_type.vote,
                          view        |-> current_view[i],
                          transmitter |-> msg.transmitter,
                          blockhash   |-> msg.signature])]
        /\ recent_views' = [recent_views EXCEPT ![i] = KeptViews(views)]
        /\ executed' = [executed EXCEPT ![i] = @ \o PoppedViews(views)]
        /\ Return(i, IF next = OurTurn THEN Some(signed_vote) ELSE self_vote[i],
                  KeptViews(views))

\* One turn of 'receive_block_and_vote in which try_next_message_from(primary)
\* yields `msg`; `ch` is the channels once the message is taken.
NonPrimaryHandle(i, msg, ch) ==
    LET Ignore == /\ chan' = ch
                  /\ UNCHANGED << current_view, pc, self_vote, recent_views,
                                  votes_received, new_views_received,
                                  executed, votes_created >>
    IN  IF verify(msg) /\ msg.message_type.tag = "Block"
        THEN IF /\ msg.message_type.block.certificate.tag = "Sad"
                /\ AggQC_valid_panics(msg.message_type.block.certificate.aggqc, quorum(i))
             THEN /\ pc' = [pc EXCEPT ![i] = "panic"]
                  /\ chan' = ch
                  /\ UNCHANGED << current_view, self_vote, recent_views,
                                  votes_received, new_views_received,
                                  executed, votes_created >>
             ELSE IF Acceptable(i, msg.message_type.block)
             THEN Accept(i, msg, ch)
             ELSE Ignore
        ELSE Ignore

\* Some channel that holds a message, whoever sent it, as next_message polls;
\* the leader's channel when every channel is empty.
LeaderChannel_any_peer(i) ==
    IF \E peer \in Validators \ { i } : chan[<< peer, i >>] # << >>
        THEN << CHOOSE peer \in Validators \ { i } : chan[<< peer, i >>] # << >>, i >>
        ELSE << primary_for_view(i, current_view[i]).public_key, i >>

\* The channel of the first peer of the table, whoever leads the view.
LeaderChannel_first_peer(i) == << Head(PeersOf(i)), i >>

\* The leader of the view as this validator's peer table names it.
LeaderChannel(i) == << primary_for_view(i, current_view[i]).public_key, i >>

nonprimary_recv(i) ==
    /\ i \in correct
    /\ pc[i] = "nonprimary"
    /\ chan[LeaderChannel(i)] # << >>
    /\ NonPrimaryHandle(i, Head(chan[LeaderChannel(i)]),
                        [chan EXCEPT ![LeaderChannel(i)] = Tail(@)])
    /\ UNCHANGED << n, correct, byzantine, proposals, probe >>

\* The deadline check sending the next leader a NewView before it returns.
nonprimary_timeout_sends_new_view(i) ==
    /\ i \in correct
    /\ pc[i] = "nonprimary"
    /\ LET next == primary_for_view(i, current_view[i] + 1)
           eta == [view |-> current_view[i] + 1, certificate |-> Genesis]
       IN  chan' = IF next = OurTurn THEN chan
                   ELSE send_to(chan, i, next.public_key,
                                [ message_type |-> MessageType_NewView(eta),
                                  transmitter  |-> i,
                                  signature    |-> Sign(i, SignedBytes(i, MessageType_NewView(eta))) ])
    /\ Return(i, self_vote[i], recent_views[i])
    /\ UNCHANGED << n, correct, byzantine, recent_views, executed,
                    votes_created, proposals, probe >>

\* The deadline check emptying recent_views before it returns.
nonprimary_timeout_clears(i) ==
    /\ i \in correct
    /\ pc[i] = "nonprimary"
    /\ recent_views' = [recent_views EXCEPT ![i] = << >>]
    /\ Return(i, self_vote[i], << >>)
    /\ UNCHANGED << n, correct, byzantine, chan, executed,
                    votes_created, proposals, probe >>

\* The deadline check at the top of 'receive_block_and_vote.
nonprimary_timeout(i) ==
    /\ i \in correct
    /\ pc[i] = "nonprimary"
    /\ Return(i, self_vote[i], recent_views[i])
    /\ UNCHANGED << n, correct, byzantine, recent_views, chan, executed,
                    votes_created, proposals, probe >>


(***************************************************************************)
(* Deadlines.                                                              *)
(***************************************************************************)

\* Whether validator i can take a turn without its deadline expiring.
CanStep(i) ==
    /\ i \in correct
    /\ \/ pc[i] = "new"
       \/ pc[i] = "primary" /\ current_view[i] = 1
       \/ pc[i] = "primary" /\ \E peer \in SeqToSet(PeersOf(i)) : chan[<< peer, i >>] # << >>
       \/ pc[i] = "nonprimary" /\ chan[LeaderChannel(i)] # << >>

\* No validator can take a turn: what a validator waits for will not come.
Quiescent == \A i \in Validators : ~CanStep(i)

\* A deadline expires in the primary's loop when nothing is left to arrive.
primary_late_timeout(i) == Quiescent /\ primary_timeout(i)

\* A deadline expires in the non-primary's loop when nothing is left to arrive.
nonprimary_late_timeout(i) == Quiescent /\ nonprimary_timeout(i)

(***************************************************************************)
(* The adversary of the closed cluster: a Byzantine validator runs the     *)
(* code like any other and, besides, equivocates as leader of view 1 and   *)
(* stays silent when it chooses to.                                        *)
(***************************************************************************)

\* The Genesis-certified blocks a Byzantine leader of view 1 signs: the one
\* the code builds, one with another payload, one with another view.
GenesisVariants(b) ==
    LET block == ProposedBlock(b, Genesis)
    IN  { block,
          [block EXCEPT !.transactions = << 1 >>],
          [block EXCEPT !.view = current_view[b] + 2] }

\* The leader of view 1 sends each peer the variant of its choice.
byz_genesis(b) ==
    /\ b \in byzantine /\ b \in correct
    /\ pc[b] = "primary"
    /\ current_view[b] = 1
    /\ \E choice \in [SeqToSet(PeersOf(b)) -> GenesisVariants(b)] :
          LET block == ProposedBlock(b, Genesis)
              block_message == SignedMessage_block(block, b)
              views == Append(recent_views[b],
                              View(current_view[b], b, block, block_message.signature))
          IN  /\ recent_views' = [recent_views EXCEPT ![b] = views]
              /\ chan' = [c \in Channels |->
                     IF c[1] = b /\ Contains(PeersOf(b), c[2])
                     THEN Append(chan[c], SignedMessage_block(choice[c[2]], b))
                     ELSE chan[c]]
              /\ Return(b, self_vote[b], views)
    /\ UNCHANGED << n, correct, byzantine, executed, votes_created, proposals, probe >>

\* A Byzantine validator stays silent for a view: it leaves the view's handler
\* without proposing or voting, whatever is in its channels.
byz_withhold(b) ==
    /\ b \in byzantine
    /\ primary_timeout(b) \/ nonprimary_timeout(b)

(***************************************************************************)
(* Specifications of the closed cluster.                                   *)
(***************************************************************************)

\* The turns of validator i's thread, deadlines apart.
Step(i) ==
    \/ start_consensus(i)
    \/ primary_genesis(i)
    \/ \E peer \in Validators : primary_recv(i, peer)
    \/ nonprimary_recv(i)

\* Every message arrives before the deadline of the view that waits for it:
\* a deadline expires only when nothing is left to arrive.
LateTimeout(i) ==
    \/ primary_late_timeout(i)
    \/ nonprimary_late_timeout(i)

\* The cluster of examples/cluster.rs in which validator 1, the leader of
\* view 1, is Byzantine; threads interleave freely.
Init ==
    /\ InitCluster(3 * F + 1, 0..(3 * F), { 1 })
    /\ probe = NoneValue

Adversary(b) ==
    \/ byz_genesis(b)
    \/ byz_withhold(b)

Next == \E i \in Validators : Step(i) \/ LateTimeout(i) \/ Adversary(i)

Spec == Init /\ [][Next]_vars

\* A cluster of n = 1 or n = 3F+1 validators, all honest, of which some may
\* be silent (their thread never runs).
InitSync ==
    \E size \in { 1, 3 * F + 1 } : \E running \in SUBSET (0..(size - 1)) :
        /\ running # {}
        /\ InitCluster(size, running, {})
        /\ probe = NoneValue

NextSync == \E i \in Validators : Step(i) \/ LateTimeout(i)

SpecSync == InitSync /\ [][NextSync]_vars

\* The cluster of examples/cluster.rs, every validator honest and running; a
\* deadline may expire at any turn of a loop.
InitFree ==
    /\ InitCluster(3 * F + 1, 0..(3 * F), { })
    /\ probe = NoneValue

NextFree ==
    \E i \in Validators :
        \/ Step(i)
        \/ primary_timeout(i)
        \/ nonprimary_timeout(i)

SpecFree == InitFree /\ [][NextFree]_vars

(***************************************************************************)
(* The open environment: one validator runs the code, its peers are the    *)
(* adversary.  The adversary holds the peers' keys and no other; what it    *)
(* sends reaches the validator's loop in the view of the adversary's        *)
(* choice, and a deadline may expire at any turn.                           *)
(***************************************************************************)

\* A message of `signer` that carries `message_type`, signed as
\* SignedMessage::block and SignedMessage::vote sign.
Signed(message_type, signer) ==
    [ message_type |-> message_type,
      transmitter  |-> signer,
      signature    |-> Sign(signer, SignedBytes(signer, message_type)) ]

\* The Vote messages the adversary sends the primary of the current view:
\* every peer's vote of the last view and of the current one, an outsider's
\* vote of the last view, and of the first peer a vote of the last view for
\* another blockhash and a vote under a signature that does not verify.
VoteMenu(i) ==
    LET peers == SeqToSet(PeersOf(i))
        first == Head(PeersOf(i))
    IN  { SignedMessage_vote(Vote(view, GenesisMarker), signer) :
              view \in { current_view[i] - 1, current_view[i] }, signer \in peers }
        \cup
        { SignedMessage_vote(Vote(current_view[i] - 1, GenesisMarker), Outsider),
          SignedMessage_vote(Vote(current_view[i] - 1, JunkSignature), first),
          [SignedMessage_vote(Vote(current_view[i] - 1, GenesisMarker), first)
              EXCEPT !.signature = JunkSignature] }

\* A QC the adversary builds from `signers`' votes.
AdversaryQC(vote, signers, producer) ==
    from_votes(vote,
               [k \in 1..Len(signers) |->
                   SignedMessage_vote(vote, signers[k]).signature],
               signers, producer)

\* The certificate of the NewView of `signer`: the first peer has no QC to
\* show, every other peer shows a QC of the last view that it produced.
NewViewCertificate(i, signer) ==
    IF signer = Head(PeersOf(i)) THEN Genesis
    ELSE AdversaryQC(Vote(current_view[i] - 1, GenesisMarker), PeersOf(i), signer)

\* The NewView messages the adversary sends the primary: the peers send
\* theirs for the current view in the order of the peer table, the first
\* peer may repeat its own, and may send one for the next view.
NewViewMenu(i) ==
    LET peers == PeersOf(i)
        unseen == { k \in 1..Len(peers) :
                       ~Contains(new_views_received[i].peers, peers[k]) }
        senders == { peers[1] } \cup
                   { peers[k] : k \in { m \in unseen : \A l \in unseen : m <= l } }
    IN  { Signed(MessageType_NewView([view |-> current_view[i],
                                      certificate |-> NewViewCertificate(i, signer)]),
                 signer) :
              signer \in senders }
        \cup
        { Signed(MessageType_NewView([view |-> current_view[i] + 1,
                                      certificate |-> Genesis]), peers[1]) }

\* An AggQC the adversary builds from NewViews that carry no QC.
AdversaryAggQC(view, signers, producer) ==
    LET eta == [view |-> view, certificate |-> Genesis]
    IN  from_newviews([k \in 1..Len(signers) |-> eta],
                      [k \in 1..Len(signers) |->
                          Signed(MessageType_NewView(eta), signers[k]).signature],
                      signers, producer)

\* An AggQC the adversary signs so that AggQC::valid holds: `signers` sign
\* their key followed by the aggregated signature of `qc`, once each.
CraftedAggQC(qc, signers, producer) ==
    LET aggregated_signature ==
            aggregate_signatures(
                [k \in 1..Len(signers) |->
                    Sign(signers[k],
                         SignedBytes(signers[k],
                                     SignatureBytes(qc.aggregated_signature)))])
    IN  Sad([ qcs                  |-> [k \in 1..Len(signers) |-> qc],
              aggregated_signature |-> aggregated_signature,
              signers              |-> signers,
              signature            |-> Sign(producer,
                                            ProducerBytes(producer, aggregated_signature)),
              producer             |-> producer ])

\* The blocks the adversary sends a non-primary on the leader's channel.
BlockMenu(i) ==
    LET leader == primary_for_view(i, current_view[i]).public_key
        peers == PeersOf(i)
        views == { current_view[i], current_view[i] + 1 }
        parents == { GenesisMarker } \cup
                   ( IF recent_views[i] = << >> THEN { }
                     ELSE { Last(recent_views[i]).blockhash } )
    IN  { Block(<< >>, Genesis, GenesisMarker, view) : view \in views }
        \cup
        { Block(<< >>, AdversaryQC(Vote(voted, GenesisMarker), signers, leader),
                parent, view) :
              voted \in { current_view[i] - 1, current_view[i] },
              signers \in { peers, SubSeq(peers, 1, Len(peers) - 1) },
              parent \in parents,
              view \in views }
        \cup
        { Block(<< >>, AdversaryAggQC(current_view[i], peers, leader),
                GenesisMarker, current_view[i]),
          Block(<< >>,
                CraftedAggQC(AdversaryQC(Vote(current_view[i] - 1, GenesisMarker),
                                         peers, leader).qc,
                             peers, leader),
                GenesisMarker, current_view[i]) }

\* The adversary's vote reaches 'message_loop.
env_vote(i) ==
    /\ i \in correct
    /\ pc[i] = "primary"
    /\ current_view[i] # 1
    /\ \E msg \in VoteMenu(i) : PrimaryHandle(i, msg, chan)
    /\ UNCHANGED << n, correct, byzantine, executed, votes_created, probe >>

\* The adversary's NewView reaches 'message_loop.
env_new_view(i) ==
    /\ i \in correct
    /\ pc[i] = "primary"
    /\ current_view[i] # 1
    /\ \E msg \in NewViewMenu(i) : PrimaryHandle(i, msg, chan)
    /\ UNCHANGED << n, correct, byzantine, executed, votes_created, probe >>

\* The adversary's block reaches 'receive_block_and_vote.
env_block(i) ==
    /\ i \in correct
    /\ pc[i] = "nonprimary"
    /\ \E block \in BlockMenu(i) :
          NonPrimaryHandle(i,
              SignedMessage_block(block,
                  primary_for_view(i, current_view[i]).public_key),
              chan)
    /\ UNCHANGED << n, correct, byzantine, proposals, probe >>

\* A block message on a primary's channel: a peer's Genesis-certified block
\* of the current view.
StrayMenu(i) ==
    { SignedMessage_block(Block(<< >>, Genesis, GenesisMarker, current_view[i]),
                          Head(PeersOf(i))) }

\* The adversary's block reaches 'message_loop.
env_stray(i) ==
    /\ i \in correct
    /\ pc[i] = "primary"
    /\ current_view[i] # 1
    /\ \E msg \in StrayMenu(i) : PrimaryHandle(i, msg, chan)
    /\ UNCHANGED << n, correct, byzantine, executed, votes_created, probe >>

\* One validator of the cluster of examples/cluster.rs runs the code.
InitOpen ==
    \E me \in 0..(3 * F) :
        /\ InitCluster(3 * F + 1, { me }, 0..(3 * F) \ { me })
        /\ probe = NoneValue

NextOpen ==
    \E i \in Validators :
        \/ start_consensus(i)
        \/ primary_genesis(i)
        \/ env_vote(i)
        \/ env_new_view(i)
        \/ env_stray(i)
        \/ env_block(i)
        \/ primary_timeout(i)
        \/ nonprimary_timeout(i)

SpecOpen == InitOpen /\ [][NextOpen]_vars

\* The blocks the adversary relays under the key of an outsider: the
\* Genesis-certified block of the current view and a block of the current
\* view certified by the peers' QC of the last view.
RelayMenu(i) ==
    LET leader == primary_for_view(i, current_view[i]).public_key
    IN  { Block(<< >>, Genesis, GenesisMarker, current_view[i]),
          Block(<< >>,
                AdversaryQC(Vote(current_view[i] - 1, GenesisMarker), PeersOf(i), leader),
                GenesisMarker, current_view[i]) }

\* A block signed by an outsider reaches 'receive_block_and_vote on the
\* leader's channel.
env_relay(i) ==
    /\ i \in correct
    /\ pc[i] = "nonprimary"
    /\ \E block \in RelayMenu(i) :
          NonPrimaryHandle(i, SignedMessage_block(block, Outsider), chan)
    /\ UNCHANGED << n, correct, byzantine, proposals, probe >>

\* The open environment whose adversary sends the non-primary nothing but
\* relayed blocks.
NextRelay ==
    \E i \in Validators :
        \/ start_consensus(i)
        \/ primary_genesis(i)
        \/ env_vote(i)
        \/ env_new_view(i)
        \/ env_stray(i)
        \/ env_relay(i)
        \/ primary_timeout(i)
        \/ nonprimary_timeout(i)

SpecRelay == InitOpen /\ [][NextRelay]_vars

\* The QC of the peers' votes of `view`, as the leader of the current view
\* produces it.
PeersQC(i, view) ==
    AdversaryQC(Vote(view, GenesisMarker), PeersOf(i),
                primary_for_view(i, current_view[i]).public_key).qc

\* The blocks the adversary sends a non-primary to try every test of the
\* match on block.certificate: Genesis blocks; blocks under the peers' QC of
\* the view before the last, of the last view and of the current one, of the
\* last view, the current one and the next; QCs with too few signers, with a
\* signer outside the quorum, with a signature that is not the signers'; and
\* AggQCs that pass AggQC::valid under blocks that extend the high QC or do
\* not, of the last view, the current one or the next, and AggQCs that fail
\* one test of AggQC::valid each.
DeliveryBlocks(i) ==
    LET leader == primary_for_view(i, current_view[i]).public_key
        peers == PeersOf(i)
        cv == current_view[i]
        last == IF cv = 1 THEN 1 ELSE cv - 1
        qc == PeersQC(i, cv - 1)
    IN  { Block(<< >>, Genesis, GenesisMarker, cv) }
        \cup
        { Block(<< >>, Happy(PeersQC(i, voted)), GenesisMarker, view) :
              voted \in { last - 1, cv - 1, cv }, view \in { last, cv, cv + 1 } }
        \cup
        { Block(<< >>,
                AdversaryQC(Vote(cv - 1, GenesisMarker), SubSeq(peers, 1, 2), leader),
                GenesisMarker, cv),
          Block(<< >>,
                AdversaryQC(Vote(cv - 1, GenesisMarker),
                            << peers[1], peers[2], Outsider >>, leader),
                GenesisMarker, cv),
          Block(<< >>, Happy([qc EXCEPT !.aggregated_signature = JunkSignature]),
                GenesisMarker, cv),
          Block(<< >>, CraftedAggQC(qc, peers, leader), GenesisMarker, cv),
          Block(<< >>, CraftedAggQC(qc, peers, leader), JunkSignature, cv),
          Block(<< >>, CraftedAggQC(qc, peers, leader), GenesisMarker, last),
          Block(<< >>, CraftedAggQC(qc, peers, leader), GenesisMarker, cv + 1),
          Block(<< >>, CraftedAggQC(qc, SubSeq(peers, 1, 2), leader), GenesisMarker, cv),
          Block(<< >>, CraftedAggQC(qc, << peers[1], peers[2], Outsider >>, leader),
                GenesisMarker, cv),
          Block(<< >>,
                CraftedAggQC(AdversaryQC(Vote(cv - 1, GenesisMarker),
                                         SubSeq(peers, 1, 2), leader).qc,
                             peers, leader),
                GenesisMarker, cv),
          Block(<< >>,
                Sad([CraftedAggQC(qc, peers, leader).aggqc
                        EXCEPT !.aggregated_signature = JunkSignature]),
                GenesisMarker, cv),
          Block(<< >>, CraftedAggQC(PeersQC(i, 0), peers, leader), GenesisMarker, cv),
          Block(<< >>, AdversaryAggQC(cv, peers, leader), GenesisMarker, cv) }

\* The messages the adversary puts on the leader's channel: these blocks
\* under the leader's signature, one of them under a signature that does not
\* verify, and a vote.
DeliveryMenu(i) ==
    LET leader == primary_for_view(i, current_view[i]).public_key
    IN  { SignedMessage_block(block, leader) : block \in DeliveryBlocks(i) }
        \cup
        { [SignedMessage_block(Block(<< >>, Happy(PeersQC(i, current_view[i] - 1)),
                                     GenesisMarker, current_view[i]), leader)
              EXCEPT !.signature = JunkSignature],
          SignedMessage_vote(Vote(current_view[i], GenesisMarker), leader) }

\* A message of the adversary reaches 'receive_block_and_vote; `probe` keeps
\* which message it was and in which view it came.
env_deliver(i) ==
    /\ i \in correct
    /\ pc[i] = "nonprimary"
    /\ \E msg \in DeliveryMenu(i) :
          /\ NonPrimaryHandle(i, msg, chan)
          /\ probe' = [tag |-> "Delivered", to |-> i, view |-> current_view[i],
                       message |-> msg]
    /\ UNCHANGED << n, correct, byzantine, proposals >>

\* The open environment of a validator that is sent blocks and nothing else.
NextDeliver ==
    \E i \in Validators :
        \/ start_consensus(i)
        \/ primary_genesis(i)
        \/ env_deliver(i)
        \/ primary_timeout(i)
        \/ nonprimary_timeout(i)

SpecDeliver == InitOpen /\ [][NextDeliver]_vars

\* The NewView messages of peers that all hold a QC: every peer's NewView of
\* the current view with the QC of the peers' votes of the last view that it
\* produced, signed as SignedMessage::verify checks.
HappyNewViewMenu(i) ==
    { Signed(MessageType_NewView(
                 [view |-> current_view[i],
                  certificate |-> AdversaryQC(Vote(current_view[i] - 1, GenesisMarker),
                                              PeersOf(i), signer)]),
             signer) :
          signer \in SeqToSet(PeersOf(i)) }

\* A peer's NewView with a QC reaches 'message_loop.
env_happy_new_view(i) ==
    /\ i \in correct
    /\ pc[i] = "primary"
    /\ current_view[i] # 1
    /\ \E msg \in HappyNewViewMenu(i) : PrimaryHandle(i, msg, chan)
    /\ UNCHANGED << n, correct, byzantine, executed, votes_created, probe >>

\* The open environment whose peers send the primary NewViews with QCs, and
\* votes.
NextNewView ==
    \E i \in Validators :
        \/ start_consensus(i)
        \/ primary_genesis(i)
        \/ env_happy_new_view(i)
        \/ env_vote(i)
        \/ env_relay(i)
        \/ primary_timeout(i)
        \/ nonprimary_timeout(i)

SpecNewView == InitOpen /\ [][NextNewView]_vars

(***************************************************************************)
(* QC::valid as a function of its arguments: a QC whose aggregated         *)
(* signature was made by `signed_by` over `signed_vote`, and which names   *)
(* `signers` and `vote`.                                                   *)
(***************************************************************************)

Keys == Validators \cup { Outsider }

\* IndexSet<PublicKey> values of at most MaxSigners keys.
SignerLists ==
    { s \in UNION { [1..m -> Keys] : m \in 0..MaxSigners } : Distinct(s) }

QCVotes == { Vote(1, GenesisMarker), Vote(2, GenesisMarker), Vote(1, JunkSignature) }

\* `signers` with some one signer replaced by a key it does not hold.
OneReplaced(signers) ==
    { [signers EXCEPT ![k] = key] :
          k \in 1..Len(signers), key \in Keys \ SeqToSet(signers) }

\* The QC that names `signers` and `vote` over the signatures of `signed_by`
\* on `signed_vote`.
ProbeQC(signers, vote, signed_by, signed_vote) ==
    LET aggregated_signature ==
            IF signed_by = << >> THEN JunkSignature
            ELSE aggregate_signatures(
                     [k \in 1..Len(signed_by) |->
                         SignedMessage_vote(signed_vote, signed_by[k]).signature])
    IN  [ vote                 |-> vote,
          aggregated_signature |-> aggregated_signature,
          signers              |-> signers,
          signature            |-> Sign(0, ProducerBytes(0, aggregated_signature)),
          producer             |-> 0 ]

InitQC ==
    \E size \in { 1, 3 * F + 1 } :
        /\ InitCluster(size, { }, { })
        /\ \E signers \in SignerLists : \E vote \in QCVotes :
           \E made \in { << signers, vote >> }
                       \cup { << s, vote >> : s \in OneReplaced(signers) }
                       \cup { << signers, v >> : v \in QCVotes \ { vote } } :
               probe = [ tag         |-> "QC",
                         qc          |-> ProbeQC(signers, vote, made[1], made[2]),
                         quorum      |-> quorum(0),
                         signed_by   |-> made[1],
                         signed_vote |-> made[2],
                         verdict     |-> NoneValue ]

\* qc.valid(quorum) is called and returns.
QC_valid_call ==
    /\ probe.tag = "QC"
    /\ probe.verdict = NoneValue
    /\ probe' = [probe EXCEPT !.verdict = Some(QC_valid(probe.qc, probe.quorum))]
    /\ UNCHANGED << n, correct, byzantine, current_view, pc, self_vote,
                    recent_views, votes_received, new_views_received, chan,
                    executed, votes_created, proposals >>

NextQC == QC_valid_call

SpecQC == InitQC /\ [][NextQC]_vars

(***************************************************************************)
(* AggQC::valid as a function of its arguments.                            *)
(***************************************************************************)

\* The signers of the embedded QCs: a supermajority of quorum(0).
EmbeddedSigners == IF n = 1 THEN << 0 >> ELSE << 1, 2, 3 >>

\* The QCs embedded in the AggQCs given to AggQC::valid: a valid one of view
\* 1, one of view 1 and one of view 2 whose signature is of another vote,
\* and a well-signed one of view 0.
EmbeddedQCs ==
    LET s == EmbeddedSigners
    IN  { ProbeQC(s, Vote(1, GenesisMarker), s, Vote(1, GenesisMarker)),
          ProbeQC(s, Vote(1, GenesisMarker), s, Vote(2, GenesisMarker)),
          ProbeQC(s, Vote(2, GenesisMarker), s, Vote(1, GenesisMarker)),
          ProbeQC(s, Vote(0, GenesisMarker), s, Vote(0, GenesisMarker)) }

\* The signer lists in ascending key order.
AscendingSignerLists ==
    { s \in SignerLists : \A k \in 1..(Len(s) - 1) : s[k] < s[k + 1] }

\* The AggQC of `signers` and `qcs`, signed as AggQC::valid verifies when
\* `crafted`, and by a junk signature otherwise.
ProbeAggQC(signers, qcs, crafted) ==
    IF crafted /\ signers # << >> /\ Len(qcs) >= Len(signers)
    THEN [ CraftedAggQC(qcs[1], signers, 0).aggqc EXCEPT
               !.qcs = qcs,
               !.aggregated_signature =
                   aggregate_signatures(
                       [k \in 1..Len(signers) |->
                           Sign(signers[k],
                                SignedBytes(signers[k],
                                    SignatureBytes(qcs[k].aggregated_signature)))]) ]
    ELSE [ qcs                  |-> qcs,
           aggregated_signature |-> JunkSignature,
           signers              |-> signers,
           signature            |-> Sign(0, ProducerBytes(0, JunkSignature)),
           producer             |-> 0 ]

InitAggQC ==
    \E size \in { 1, 3 * F + 1 } :
        /\ InitCluster(size, { }, { })
        /\ \E signers \in AscendingSignerLists :
           \E m \in { Len(signers), Len(signers) - 1 } \cap Nat :
           \E qcs \in [1..m -> EmbeddedQCs] :
           \E crafted \in BOOLEAN :
               probe = [ tag     |-> "AggQC",
                         aggqc   |-> ProbeAggQC(signers, qcs, crafted),
                         quorum  |-> quorum(0),
                         verdict |-> NoneValue ]

\* aggqc.valid(quorum) is called: it returns, or panics in valid_high_qc.
AggQC_valid_call ==
    /\ probe.tag = "AggQC"
    /\ probe.verdict = NoneValue
    /\ probe' = [probe EXCEPT !.verdict =
           IF AggQC_valid_panics(probe.aggqc, probe.quorum)
           THEN [tag |-> "panic"]
           ELSE Some(AggQC_valid(probe.aggqc, probe.quorum))]
    /\ UNCHANGED << n, correct, byzantine, current_view, pc, self_vote,
                    recent_views, votes_received, new_views_received, chan,
                    executed, votes_created, proposals >>

NextAggQC == AggQC_valid_call

SpecAggQC == InitAggQC /\ [][NextAggQC]_vars

(***************************************************************************)
(* primary_for_view on every validator of a cluster of setup_cluster.      *)
(***************************************************************************)

InitLeader ==
    \E size \in { 1, 3 * F + 1 } :
        /\ InitCluster(size, 0..(size - 1), { })
        /\ \E view \in 1..MaxView :
               probe = [ tag     |-> "Leader",
                         view    |-> view,
                         answers |-> [i \in { } |-> OurTurn] ]

\* Validator i evaluates primary_for_view(view) and primary_for_view(view + n).
primary_for_view_call(i) ==
    /\ probe.tag = "Leader"
    /\ i \in Cluster
    /\ i \notin DOMAIN probe.answers
    /\ probe' = [probe EXCEPT !.answers =
           @ @@ (i :> [ now   |-> primary_for_view(i, probe.view),
                        later |-> primary_for_view(i, probe.view + quorum_size(i)) ])]
    /\ UNCHANGED << n, correct, byzantine, current_view, pc, self_vote,
                    recent_views, votes_received, new_views_received, chan,
                    executed, votes_created, proposals >>

NextLeader == \E i \in Validators : primary_for_view_call(i)

SpecLeader == InitLeader /\ [][NextLeader]_vars

(***************************************************************************)
(* The supermajority thresholds of Endpoint, QC::valid and AggQC::valid.   *)
(***************************************************************************)

\* A certificate, QC or AggQC, as far as the first closure of valid reads
\* it: k signers.
CertificateOf(k) == [signers |-> [j \in 1..k |-> j - 1]]

InitThreshold ==
    \E size \in 1..MaxQuorum :
        /\ InitCluster(size, { }, { })
        /\ \E k \in 0..(size + 1) :
               probe = [tag |-> "Threshold", k |-> k, verdict |-> NoneValue]

\* Validator 0 evaluates is_supermajority(k), and the first closure of
\* QC::valid and of AggQC::valid on k signers and its quorum.
is_supermajority_call ==
    /\ probe.tag = "Threshold"
    /\ probe.verdict = NoneValue
    /\ probe' = [probe EXCEPT !.verdict =
           Some([ endpoint |-> is_supermajority(0, probe.k),
                  qc       |-> QC_is_supermajority(CertificateOf(probe.k), quorum(0)),
                  aggqc    |-> AggQC_is_supermajority(CertificateOf(probe.k), quorum(0)),
                  peers    |-> Len(PeersOf(0)) ])]
    /\ UNCHANGED << n, correct, byzantine, current_view, pc, self_vote,
                    recent_views, votes_received, new_views_received, chan,
                    executed, votes_created, proposals >>

NextThreshold == is_supermajority_call

SpecThreshold == InitThreshold /\ [][NextThreshold]_vars

(***************************************************************************)
(* The commit rule as a function of recent_views.  The queue holds the     *)
(* Views of block messages in the order the validator accepted them: a     *)
(* block on genesis or on any earlier entry, or, the adversary repeating a *)
(* message in a later view, an earlier entry once more.                    *)
(***************************************************************************)

\* The View nonprimary_logic pushes for the block message `msg`.
ViewOfMessage(msg) ==
    View(msg.message_type.block.view, msg.transmitter,
         msg.message_type.block, msg.signature)

\* The entries that can follow the queue `views` of validator 0, every one a
\* block message which validator 1 signed.  The entry in place k arrives in
\* view k + 1, or in view 1 when it is the first and of the Genesis kind.  A
\* block of the Happy kind is of the view after the one it arrives in, so
\* that it passes pipeline_safe_block_qc once more in that view: the last
\* entry, when of the Happy kind, can follow itself.
NextEntries(views) ==
    ( IF views = << >>
      THEN { ViewOfMessage(SignedMessage_block(
                 Block(<< >>, Genesis, GenesisMarker, 1), 1)) }
      ELSE { } )
    \cup
    { ViewOfMessage(SignedMessage_block(
          Block(<< >>,
                AdversaryQC(Vote(Len(views) + 2, GenesisMarker), PeersOf(0), 1),
                parent, Len(views) + 3), 1)) :
        parent \in { GenesisMarker } \cup { views[k].blockhash : k \in 1..Len(views) } }
    \cup
    ( IF views # << >> /\ Last(views).block.certificate.tag = "Happy"
      THEN { Last(views) } ELSE { } )

RECURSIVE Queues(_)
\* The queues of `len` entries.
Queues(len) ==
    IF len = 0 THEN { << >> }
    ELSE UNION { { Append(views, entry) : entry \in NextEntries(views) } :
                   views \in Queues(len - 1) }

InitCommit ==
    /\ InitCluster(3 * F + 1, { }, { })
    /\ \E len \in 0..MaxQueue : \E views \in Queues(len) :
           probe = [tag |-> "Commit", views |-> views, verdict |-> NoneValue]

\* The commit rule runs on recent_views = probe.views.
commit_call ==
    /\ probe.tag = "Commit"
    /\ probe.verdict = NoneValue
    /\ probe' = [probe EXCEPT !.verdict =
           Some([ executed |-> PoppedViews(probe.views),
                  kept     |-> KeptViews(probe.views) ])]
    /\ UNCHANGED << n, correct, byzantine, current_view, pc, self_vote,
                    recent_views, votes_received, new_views_received, chan,
                    executed, votes_created, proposals >>

NextCommit == commit_call

SpecCommit == InitCommit /\ [][NextCommit]_vars

(***************************************************************************)
(* Properties of the closed cluster.                                       *)
(***************************************************************************)

\* The heights of a sequence of Views.
Heights(views) == [k \in 1..Len(views) |-> views[k].height]

\* The views 1..upto as a sequence.
UpTo(upto) == [k \in 1..upto |-> k]

IsPrefix(s, t) == Len(s) <= Len(t) /\ s = SubSeq(t, 1, Len(s))

\* How many views validator i has finished.
ViewsFinished(i) ==
    IF pc[i] \in { "done", "panic" } THEN current_view[i]
    ELSE IF pc[i] = "new" THEN 0 ELSE current_view[i] - 1

\* Whether validator i broadcast a block while it was in `view`.
ProposedIn(i, view) == \E k \in 1..Len(proposals[i]) : proposals[i][k].view = view

\* The fault-free run of the cluster of examples/cluster.rs.
FaultFree == n = 3 * F + 1 /\ correct = 0..(3 * F) /\ byzantine = {}

\* C1 (agreement): with at most F Byzantine validators among 3F+1, two correct
\* validators that execute a block at the same height execute the same block.
C1_Agreement ==
    \A i, j \in Honest :
        \A k \in 1..Len(executed[i]) : \A l \in 1..Len(executed[j]) :
            executed[i][k].height = executed[j][l].height
                => executed[i][k].blockhash = executed[j][l].blockhash

\* C2 witness: a fault-free run in which one validator has executed one block
\* and another has executed two.
C2_PrefixReached ==
    /\ FaultFree
    /\ \E i, j \in correct : Len(executed[i]) = 1 /\ Len(executed[j]) = 2

\* C2: in a fault-free run of four validators, under every interleaving, of
\* the executed sequences of two validators one is a prefix of the other.
C2_CommittedPrefix ==
    FaultFree =>
        \A i, j \in correct :
            IsPrefix(executed[i], executed[j]) \/ IsPrefix(executed[j], executed[i])

\* C3: in a fault-free run of four validators, a validator that has finished
\* view v >= 3 has executed exactly the blocks of heights 1..v-2.
C3_CommitLag ==
    FaultFree =>
        \A i \in correct :
            ViewsFinished(i) >= 3
                => Heights(executed[i]) = UpTo(ViewsFinished(i) - 2)

\* C4: the sole validator of a cluster of one proposes in every view it has
\* finished, has executed nothing before view 3 and, from view 3 on, has
\* executed the blocks of heights 1..v-2 when it finishes view v.
C4_SoleValidator ==
    n = 1 =>
        \A i \in correct :
            /\ \A view \in 1..ViewsFinished(i) :
                   primary_for_view(i, view) = OurTurn /\ ProposedIn(i, view)
            /\ Heights(executed[i]) =
                   UpTo(IF ViewsFinished(i) >= 3 THEN ViewsFinished(i) - 2 ELSE 0)

\* C5: with at most F silent validators among 3F+1 and every message arriving
\* before the deadline, a correct leader of view v that has finished view v
\* has proposed in it whenever the leader of view v-1 proposed.
C5_Progress ==
    (n = 3 * F + 1 /\ Cardinality(Cluster \ correct) <= F) =>
        \A i \in correct : \A view \in 2..ViewsFinished(i) :
            ( /\ primary_for_view(i, view) = OurTurn
              /\ ProposedIn((view - 1) % n, view - 1) )
                => ProposedIn(i, view)

\* C6: start_consensus never panics, whatever the peers do, total silence
\* included.
C6_NoPanic == \A i \in correct : pc[i] # "panic"

\* C8: the heights of each correct validator's recent_views increase strictly
\* from front to back, a Byzantine leader's proposals included.
C8_HeightMonotonic ==
    \A i \in Honest :
        \A k \in 1..(Len(recent_views[i]) - 1) :
            recent_views[i][k].height < recent_views[i][k + 1].height

(***************************************************************************)
(* Properties of the validator in the open environment.                    *)
(***************************************************************************)

\* C7 witness: a validator has signed votes in two views.
C7_VotedTwice == \E i \in Honest : Len(votes_created[i]) >= 2

\* C7: a validator creates at most one Vote per view, sent or stashed in
\* self_vote, and none for a view it leads.
C7_OneVotePerView ==
    \A i \in Honest :
        /\ \A k, l \in 1..Len(votes_created[i]) :
              k # l => votes_created[i][k].vote.view # votes_created[i][l].vote.view
        /\ \A k \in 1..Len(votes_created[i]) :
              primary_for_view(i, votes_created[i][k].vote.view) # OurTurn

\* The Happy-certified blocks validator i broadcast in a view >= 2.
HappyProposals(i) ==
    { k \in 1..Len(proposals[i]) :
        /\ proposals[i][k].view >= 2
        /\ proposals[i][k].message.message_type.block.certificate.tag = "Happy" }

\* C9 witness: a validator has broadcast a Happy-certified block whose QC
\* holds the vote it had stashed in self_vote.
C9_SelfVoteInQC ==
    \E i \in Honest : \E k \in HappyProposals(i) :
        Contains(proposals[i][k].message.message_type.block.certificate.qc.signers, i)

\* C9: a Happy-certified block an honest leader broadcasts in view v >= 2 has
\* block.view = v and qc.vote.view = v-1, and every signature aggregated in
\* the QC, the one of a stashed self_vote included, is a signature of that
\* vote of view v-1.
C9_HappyProposal ==
    \A i \in Honest : \A k \in HappyProposals(i) :
        LET block == proposals[i][k].message.message_type.block
            qc == block.certificate.qc
        IN  /\ block.view = proposals[i][k].view
            /\ qc.vote.view = proposals[i][k].view - 1
            /\ \A e \in BagToSet(qc.aggregated_signature) :
                  e.bytes = SignedBytes(e.signer, MessageType_Vote(qc.vote))

(***************************************************************************)
(* Properties of QC::valid.                                                *)
(***************************************************************************)

\* C10 witness: valid has returned true for a QC of three signers.
C10_ValidReached ==
    /\ probe.tag = "QC"
    /\ probe.verdict = Some(TRUE)
    /\ Len(probe.qc.signers) = 3

\* C10: QC::valid(quorum) is true exactly when more than 2|quorum|/3 signers
\* are named, each is in quorum, and the aggregated signature aggregates each
\* signer's signature of its key followed by the Vote; it is false when a
\* signer was replaced, when the vote was changed, and for exactly
\* floor(2|quorum|/3) signers.
C10_ValidIff ==
    (probe.tag = "QC" /\ probe.verdict # NoneValue) =>
        LET qc == probe.qc
            members == SeqToSet(probe.quorum)
            signed == SetToBag({ [signer |-> k,
                                  bytes  |-> << k, MessageType_Vote(qc.vote) >>] :
                                    k \in SeqToSet(qc.signers) })
            holds == /\ 3 * Len(qc.signers) > 2 * Cardinality(members)
                     /\ SeqToSet(qc.signers) \subseteq members
                     /\ qc.aggregated_signature = signed
        IN  /\ probe.verdict.value = holds
            /\ probe.signed_by # qc.signers => probe.verdict.value = FALSE
            /\ probe.signed_vote # qc.vote => probe.verdict.value = FALSE
            /\ Len(qc.signers) = (2 * Cardinality(members)) \div 3
                   => probe.verdict.value = FALSE


(***************************************************************************)
(* Properties of AggQC::valid.                                             *)
(***************************************************************************)

\* C11 witness: valid has returned true for an AggQC that embeds, after its
\* high QC, a QC that is not valid.
C11_ValidReached ==
    /\ probe.tag = "AggQC"
    /\ probe.verdict = Some(TRUE)
    /\ \E k \in 1..Len(probe.aggqc.qcs) : ~QC_valid(probe.aggqc.qcs[k], probe.quorum)

\* C11: AggQC::valid(quorum) is true only if more than 2|quorum|/3 signers are
\* named, each is in quorum, the first embedded QC of maximal vote.view is
\* QC::valid(quorum), and the aggregated signature aggregates each signer's
\* signature of its key followed by the aggregated signature of the QC at
\* its position.
C11_ValidOnlyIf ==
    (probe.tag = "AggQC" /\ probe.verdict = Some(TRUE)) =>
        LET aggqc == probe.aggqc
            qcs == aggqc.qcs
            members == SeqToSet(probe.quorum)
            top == CHOOSE v \in { qcs[k].vote.view : k \in 1..Len(qcs) } :
                       \A k \in 1..Len(qcs) : qcs[k].vote.view <= v
            high == CHOOSE k \in 1..Len(qcs) :
                        /\ qcs[k].vote.view = top
                        /\ \A j \in 1..(k - 1) : qcs[j].vote.view < top
        IN  /\ 3 * Len(aggqc.signers) > 2 * Cardinality(members)
            /\ SeqToSet(aggqc.signers) \subseteq members
            /\ qcs # << >>
            /\ QC_valid(qcs[high], probe.quorum)
            /\ Len(qcs) >= Len(aggqc.signers)
            /\ aggqc.aggregated_signature =
                   SetToBag({ [signer |-> aggqc.signers[k],
                               bytes  |-> << aggqc.signers[k],
                                             SignatureBytes(qcs[k].aggregated_signature) >>] :
                                 k \in 1..Len(aggqc.signers) })


(***************************************************************************)
(* Properties of primary_for_view.                                         *)
(***************************************************************************)

\* C12 witness: every validator of the cluster of four has answered for a
\* view beyond the first rotation.
C12_AllAnswered ==
    /\ probe.tag = "Leader"
    /\ n = 3 * F + 1
    /\ probe.view > n
    /\ DOMAIN probe.answers = Cluster

\* C12: for view v the validator of index v mod n, and no other, gets OurTurn
\* from primary_for_view(v), every other validator gets Peer of that
\* validator's key, and primary_for_view(v + n) answers the same.
C12_LeaderAgreed ==
    probe.tag = "Leader" =>
        \A i \in DOMAIN probe.answers :
            /\ probe.answers[i].now =
                   IF i = probe.view % n THEN OurTurn ELSE Peer(probe.view % n)
            /\ probe.answers[i].later = probe.answers[i].now


(***************************************************************************)
(* Properties of the thresholds.                                           *)
(***************************************************************************)

\* C13 witness: is_supermajority(5) has returned true in a quorum of 7.
C13_FiveOfSeven ==
    /\ probe.tag = "Threshold"
    /\ probe.verdict # NoneValue
    /\ probe.verdict.value.peers = 6
    /\ probe.k = 5
    /\ probe.verdict.value.endpoint

\* C13: is_supermajority(k) is true exactly when k > 2n/3, n the number of
\* peers plus one, which for n = 3f+1 is k >= 2f+1; QC::valid and AggQC::valid
\* apply the same threshold.
C13_Threshold ==
    (probe.tag = "Threshold" /\ probe.verdict # NoneValue) =>
        LET size == probe.verdict.value.peers + 1
        IN  /\ probe.verdict.value.endpoint = (3 * probe.k > 2 * size)
            /\ \A f \in 0..MaxQuorum :
                  size = 3 * f + 1
                      => probe.verdict.value.endpoint = (probe.k >= 2 * f + 1)
            /\ probe.verdict.value.qc = probe.verdict.value.endpoint
            /\ probe.verdict.value.aggqc = probe.verdict.value.endpoint


(***************************************************************************)
(* Properties of the non-primary in the open environment.                  *)
(***************************************************************************)

\* C14: a non-primary in view v accepts (records and votes for) a block only
\* if the block message's transmitter is the leader of view v, a member of
\* the quorum.
C14_AcceptsFromLeaderOnly ==
    \A i \in Honest : \A k \in 1..Len(votes_created[i]) :
        /\ Contains(quorum(i), votes_created[i][k].transmitter)
        /\ votes_created[i][k].transmitter = votes_created[i][k].view % n


(***************************************************************************)
(* Properties of the primary in the open environment.                      *)
(***************************************************************************)

\* The Sad-certified blocks validator i broadcast.
SadProposals(i) ==
    { k \in 1..Len(proposals[i]) :
        proposals[i][k].message.message_type.block.certificate.tag = "Sad" }

\* C15: an AggQC a leader builds from its NewView tally has as many signers
\* as QCs, and signers[k] is the sender of the NewView that carried qcs[k]
\* (in this environment, the producer of qcs[k]).
C15_SignersMatchQCs ==
    \A i \in Honest : \A p \in SadProposals(i) :
        LET aggqc == proposals[i][p].message.message_type.block.certificate.aggqc
        IN  /\ Len(aggqc.signers) = Len(aggqc.qcs)
            /\ \A k \in 1..Len(aggqc.qcs) : aggqc.qcs[k].producer = aggqc.signers[k]


\* What the primary of the current view is to drop: a message whose signature
\* is not its transmitter's signature of the message, a message of a key that
\* is not a peer's, a Vote of a view other than the last, a NewView of a view
\* other than the current one, a Block.
Dropped(i, msg) ==
    \/ msg.signature # Sign(msg.transmitter,
                            << msg.transmitter, msg.message_type >>)
    \/ msg.transmitter \notin SeqToSet(PeersOf(i))
    \/ msg.message_type.tag = "Vote"
          /\ msg.message_type.vote.view # current_view[i] - 1
    \/ msg.message_type.tag = "NewView"
          /\ msg.message_type.eta.view # current_view[i]
    \/ msg.message_type.tag = "Block"

\* C16 witness: a primary holds tallied votes and tallied NewViews, so that a
\* dropped message has something to leave unchanged.
C16_TalliesHeld ==
    \E i \in Honest :
        /\ pc[i] = "primary"
        /\ DOMAIN votes_received[i] # { }
        /\ new_views_received[i].peers # << >>

\* C16: a turn of the primary's loop on a message that is to be dropped leaves
\* votes_received and the NewView tally as they were and proposes nothing.
C16_DroppedLeavesTally ==
    [][ \A i \in Honest :
          (pc[i] = "primary" /\ current_view[i] # 1) =>
              \A msg \in VoteMenu(i) \cup NewViewMenu(i) \cup StrayMenu(i) :
                  (Dropped(i, msg) /\ PrimaryHandle(i, msg, chan)) =>
                      /\ votes_received'[i] = votes_received[i]
                      /\ new_views_received'[i] = new_views_received[i]
                      /\ proposals'[i] = proposals[i]
                      /\ pc'[i] = pc[i] ]_vars


\* C17 witness: a primary's tally holds two buckets, one of them a vote short
\* of the supermajority.
C17_BucketsCompete ==
    \E i \in Honest :
        /\ pc[i] = "primary"
        /\ Cardinality(DOMAIN votes_received[i]) >= 2
        /\ \E v \in DOMAIN votes_received[i] :
              Len(votes_received[i][v].peers) = (2 * n) \div 3

\* C17: when a primary builds a QC, no bucket of its tally exceeded 2n/3
\* before the vote that completes it; the QC's signers are more than 2n/3
\* distinct keys, namely the bucket's signers in the order tallied and at most
\* one more; and its aggregated signature holds one signature per signer, of
\* the QC's very Vote.
C17_WinningBucket ==
    [][ \A i \in Honest :
          ( /\ Len(proposals'[i]) = Len(proposals[i]) + 1
            /\ Last(proposals'[i]).message.message_type.block.certificate.tag = "Happy" )
          => LET qc == Last(proposals'[i]).message.message_type.block.certificate.qc
                 tally == votes_received[i]
                 held == IF qc.vote \in DOMAIN tally THEN tally[qc.vote].peers ELSE << >>
             IN  /\ \A v \in DOMAIN tally : ~(3 * Len(tally[v].peers) > 2 * n)
                 /\ 3 * Len(qc.signers) > 2 * n
                 /\ Distinct(qc.signers)
                 /\ Len(qc.signers) = Len(held) + 1
                 /\ SubSeq(qc.signers, 1, Len(held)) = held
                 /\ qc.aggregated_signature =
                        SetToBag({ [signer |-> qc.signers[k],
                                    bytes  |-> << qc.signers[k], MessageType_Vote(qc.vote) >>] :
                                      k \in 1..Len(qc.signers) }) ]_vars


(***************************************************************************)
(* Properties of the view loop.                                            *)
(***************************************************************************)

\* C18 witness: a validator has run its last view, some views timed out and
\* some not.
C18_LoopDone ==
    \E i \in Honest :
        /\ pc[i] = "done"
        /\ current_view[i] = LastView
        /\ Len(votes_created[i]) \in 1..(LastView - 2)

\* C18: current_view takes the values 1, 2, ... in this order, each once: a
\* step leaves it as it is or, where a handler returns or the loop starts,
\* adds one; it starts from new_genesis' 0 and never passes the last view.
C18_ViewMonotone ==
    [][ \A i \in Validators :
          /\ current_view'[i] \in { current_view[i], current_view[i] + 1 }
          /\ current_view'[i] \in 0..LastView
          /\ (pc[i] \in { "done", "panic" }) => current_view'[i] = current_view[i]
          /\ (pc'[i] = pc[i] /\ pc[i] = "new") => current_view'[i] = 0 ]_vars


\* C20: the Vote an honest validator produces on accepting a block names
\* that block: its blockhash is the signature of the accepted block message.
C20_VoteNamesBlock ==
    \A i \in correct : \A k \in 1..Len(votes_created[i]) :
        votes_created[i][k].vote.blockhash = votes_created[i][k].blockhash

(***************************************************************************)
(* Properties of the commit rule.                                          *)
(***************************************************************************)

\* C19: with L, P, G the three most recent entries, the rule commits iff
\* L.block.last_blockhash = P.blockhash and P.block.last_blockhash =
\* G.blockhash; a commit executes the entries from the front through G, in
\* order, and leaves P and L; otherwise nothing is executed and every entry
\* is kept.
C19_ThreeChain ==
    (probe.tag = "Commit" /\ probe.verdict # NoneValue) =>
        LET views == probe.views
            len == Len(views)
            linked == /\ len >= 3
                      /\ views[len].block.last_blockhash = views[len - 1].blockhash
                      /\ views[len - 1].block.last_blockhash = views[len - 2].blockhash
        IN  IF linked
            THEN /\ probe.verdict.value.executed = SubSeq(views, 1, len - 2)
                 /\ probe.verdict.value.kept = << views[len - 1], views[len] >>
            ELSE /\ probe.verdict.value.executed = << >>
                 /\ probe.verdict.value.kept = views


(***************************************************************************)
(* Properties of the non-primary's match on the certificate.               *)
(***************************************************************************)

\* The step is a turn of validator i's loop on a block message that verifies.
BlockDelivered(i) ==
    /\ probe' # probe
    /\ probe'.tag = "Delivered"
    /\ probe'.to = i
    /\ verify(probe'.message)
    /\ probe'.message.message_type.tag = "Block"

\* The step makes validator i vote.
Voted(i) == Len(votes_created'[i]) = Len(votes_created[i]) + 1

\* The step changes nothing of validator i but which message it saw last.
Polling(i) ==
    /\ pc'[i] = pc[i]
    /\ current_view'[i] = current_view[i]
    /\ self_vote'[i] = self_vote[i]
    /\ recent_views'[i] = recent_views[i]
    /\ executed'[i] = executed[i]
    /\ votes_created'[i] = votes_created[i]
    /\ \A peer \in Validators \ { i } : chan'[<< i, peer >>] = chan[<< i, peer >>]

\* C21 witness: a block of the last view under a valid QC of the view before
\* it was delivered, and the validator is still in the view it came in.
C21_StaleOffered ==
    /\ probe.tag = "Delivered"
    /\ probe.message.message_type.tag = "Block"
    /\ LET block == probe.message.message_type.block
       IN  /\ block.certificate.tag = "Happy"
           /\ QC_valid(block.certificate.qc, quorum(probe.to))
           /\ block.view = block.certificate.qc.vote.view + 1
           /\ block.view < probe.view
           /\ current_view[probe.to] = probe.view
           /\ pc[probe.to] = "nonprimary"

\* C21: a non-primary in view cv votes for a block certified by Happy(qc) iff
\* qc is valid for the quorum, block.view >= cv and block.view =
\* qc.vote.view + 1; so a block it votes for is not of a view before cv and
\* its QC is not of a view before cv - 1.
C21_HappyAcceptedIff ==
    [][ \A i \in Honest :
          ( /\ BlockDelivered(i)
            /\ probe'.message.message_type.block.certificate.tag = "Happy" )
          => LET block == probe'.message.message_type.block
                 qc == block.certificate.qc
             IN  /\ Voted(i) <=> ( /\ QC_valid(qc, quorum(i))
                                   /\ block.view >= current_view[i]
                                   /\ block.view = qc.vote.view + 1 )
                 /\ Voted(i) => /\ block.view >= current_view[i]
                                /\ qc.vote.view >= current_view[i] - 1
                                /\ Last(recent_views'[i]).block = block
                 /\ ~Voted(i) => Polling(i) ]_vars


\* C22 witness: a block of the current view under a valid AggQC was
\* delivered that does not extend the high QC's blockhash, and the validator
\* is still in the view it came in.
C22_UnchainedOffered ==
    /\ probe.tag = "Delivered"
    /\ probe.message.message_type.tag = "Block"
    /\ LET block == probe.message.message_type.block
       IN  /\ block.certificate.tag = "Sad"
           /\ AggQC_valid(block.certificate.aggqc, quorum(probe.to))
           /\ block.view >= probe.view
           /\ block.last_blockhash #
                  find_high_qc(block.certificate.aggqc).value.vote.blockhash
           /\ current_view[probe.to] = probe.view
           /\ pc[probe.to] = "nonprimary"

\* C22: a non-primary in view cv votes for a block certified by Sad(aggqc)
\* iff aggqc is valid for the quorum, block.view >= cv and
\* block.last_blockhash is the vote.blockhash of the embedded QC of the
\* highest vote.view.
C22_SadAcceptedIff ==
    [][ \A i \in Honest :
          ( /\ BlockDelivered(i)
            /\ probe'.message.message_type.block.certificate.tag = "Sad" )
          => LET block == probe'.message.message_type.block
                 aggqc == block.certificate.aggqc
                 top == { k \in 1..Len(aggqc.qcs) :
                            \A j \in 1..Len(aggqc.qcs) :
                                aggqc.qcs[j].vote.view <= aggqc.qcs[k].vote.view }
             IN  /\ Voted(i) <=>
                       ( /\ AggQC_valid(aggqc, quorum(i))
                         /\ block.view >= current_view[i]
                         /\ \E k \in top :
                               block.last_blockhash = aggqc.qcs[k].vote.blockhash )
                 /\ Voted(i) => Last(recent_views'[i]).block = block ]_vars


\* C23: a proposal whose QC or AggQC is not valid for the quorum, or that
\* fails its safety predicate, is dropped: the turn of the loop makes no
\* vote, leaves recent_views and self_vote as they were, and the validator
\* goes on polling in the same view.
C23_InvalidDropped ==
    [][ \A i \in Honest :
          BlockDelivered(i) =>
              LET block == probe'.message.message_type.block
                  certificate == block.certificate
                  refused ==
                      \/ /\ certificate.tag = "Happy"
                         /\ ~( /\ QC_valid(certificate.qc, quorum(i))
                               /\ pipeline_safe_block_qc(block, certificate.qc,
                                                         current_view[i]) )
                      \/ /\ certificate.tag = "Sad"
                         /\ ~( /\ AggQC_valid(certificate.aggqc, quorum(i))
                               /\ pipeline_safe_block_aggqc(block, certificate.aggqc,
                                                            current_view[i]) )
              IN  refused => Polling(i) ]_vars


(***************************************************************************)
(* Properties of the vote's dispatch.                                      *)
(***************************************************************************)

\* C24 witness: a validator leads the view after the one it voted in, and
\* runs it with its own vote in the tally.
C24_OwnVoteKept ==
    \E i \in Honest :
        /\ pc[i] = "primary"
        /\ votes_created[i] # << >>
        /\ Last(votes_created[i]).view = current_view[i] - 1
        /\ Last(votes_created[i]).vote \in DOMAIN votes_received[i]

\* C24: on accepting a block in view cv a non-primary makes one Vote of view
\* cv for block.last_blockhash; when the leader of cv + 1 is another
\* validator the signed vote is appended to the channel to that leader and no
\* other channel changes, and when it is the validator itself no channel
\* changes and the signed vote is kept for its own tally of view cv + 1.
C24_VoteToNextLeader ==
    [][ \A i \in Honest :
          Voted(i) =>
              LET cv == current_view[i]
                  vote == Vote(cv, Last(recent_views'[i]).block.last_blockhash)
                  signed_vote == SignedMessage_vote(vote, i)
                  next == (cv + 1) % n
              IN  /\ Last(votes_created'[i]).vote = vote
                  /\ IF next = i
                     THEN /\ \A peer \in Validators \ { i } :
                                chan'[<< i, peer >>] = chan[<< i, peer >>]
                          /\ IF cv < LastView
                             THEN /\ self_vote'[i] = NoneValue
                                  /\ votes_received'[i] =
                                         ( vote :> [sigs  |-> << signed_vote.signature >>,
                                                    peers |-> << i >>] )
                             ELSE self_vote'[i] = Some(signed_vote)
                     ELSE /\ chan'[<< i, next >>] =
                                 Append(chan[<< i, next >>], signed_vote)
                          /\ \A peer \in Validators \ { i, next } :
                                chan'[<< i, peer >>] = chan[<< i, peer >>]
                          /\ self_vote'[i] = self_vote[i] ]_vars


(***************************************************************************)
(* Properties of the deadlines.                                            *)
(***************************************************************************)

\* C25 witness: a validator has run its last view; the view it led timed out
\* and so did a view it did not lead, after a block it had accepted.
C25_BothTimedOut ==
    \E i \in Honest :
        /\ pc[i] = "done"
        /\ proposals[i] = << >>
        /\ votes_created[i] # << >>
        /\ Len(votes_created[i]) < LastView - 1

\* C25: a view that ends without a proposal of its primary, or without a vote
\* of a non-primary, ends by the deadline: the validator has sent nothing,
\* executed nothing, its recent_views (and a non-primary's self_vote) are as
\* they were, and it runs the next view.
C25_TimeoutFrame ==
    [][ \A i \in Honest :
          ( /\ pc[i] \in { "primary", "nonprimary" }
            /\ current_view'[i] # current_view[i]
            /\ proposals'[i] = proposals[i]
            /\ votes_created'[i] = votes_created[i] )
          => /\ \A peer \in Validators \ { i } :
                    chan'[<< i, peer >>] = chan[<< i, peer >>]
             /\ recent_views'[i] = recent_views[i]
             /\ executed'[i] = executed[i]
             /\ pc[i] = "nonprimary" => self_vote'[i] = self_vote[i]
             /\ current_view'[i] = current_view[i] + 1
             /\ pc'[i] \in { "primary", "nonprimary" }
             /\ pc'[i] = "primary" <=> (current_view[i] + 1) % n = i ]_vars


\* C26 witness: a Genesis-certified block was delivered in a view after the
\* first to a validator that holds accepted blocks, and the validator is
\* still in that view.
C26_LateGenesisOffered ==
    /\ probe.tag = "Delivered"
    /\ probe.message.message_type.tag = "Block"
    /\ probe.message.message_type.block.certificate.tag = "Genesis"
    /\ probe.view > 1
    /\ current_view[probe.to] = probe.view
    /\ pc[probe.to] = "nonprimary"
    /\ recent_views[probe.to] # << >>

\* C26: a non-primary votes for a Genesis-certified block iff its
\* current_view is 1; in a later view the turn of the loop makes no vote and
\* leaves recent_views as it was.
C26_GenesisInViewOne ==
    [][ \A i \in Honest :
          ( /\ BlockDelivered(i)
            /\ probe'.message.message_type.block.certificate.tag = "Genesis" )
          => /\ Voted(i) <=> current_view[i] = 1
             /\ Voted(i) => Last(recent_views'[i]).block =
                                probe'.message.message_type.block
             /\ current_view[i] > 1 => Polling(i) ]_vars


(***************************************************************************)
(* Properties of the leader's proposal.                                    *)
(***************************************************************************)

\* C27 witness: a leader proposed, in a view after the first, a block on top
\* of a block it had accepted.
C27_ProposedOnAccepted ==
    \E i \in Honest : \E k \in 1..Len(proposals[i]) :
        /\ proposals[i][k].view > 1
        /\ proposals[i][k].message.message_type.block.last_blockhash # GenesisMarker

\* C27: the block an honest leader proposes in view v is of view v, holds no
\* transactions and names the blockhash of the last entry of the leader's
\* recent_views, or the genesis marker when there is none; the leader appends
\* the View of height v, led by itself, whose blockhash is the signature of
\* its block message, and appends the block message once to the channel to
\* every peer.
C27_Proposal ==
    [][ \A i \in Honest :
          Len(proposals'[i]) = Len(proposals[i]) + 1 =>
              LET v == current_view[i]
                  message == Last(proposals'[i]).message
                  block == message.message_type.block
              IN  /\ message.message_type.tag = "Block"
                  /\ message.transmitter = i
                  /\ message.signature = Sign(i, << i, message.message_type >>)
                  /\ block.view = v
                  /\ block.transactions = << >>
                  /\ block.last_blockhash =
                         IF recent_views[i] = << >> THEN Sign(0 - 1, << >>)
                         ELSE recent_views[i][Len(recent_views[i])].blockhash
                  /\ recent_views'[i] =
                         Append(recent_views[i],
                                [height |-> v, leader |-> i, block |-> block,
                                 blockhash |-> message.signature])
                  /\ \A peer \in Cluster \ { i } :
                         chan'[<< i, peer >>] = Append(chan[<< i, peer >>], message) ]_vars


(***************************************************************************)
(* Properties of the runs without faults.                                  *)
(***************************************************************************)

\* C28 witness: a validator has run its last view, a view of its own timed
\* out, and a leader proposed under a Happy certificate.
C28_TimedOutAndHappy ==
    /\ \E i \in correct :
          /\ pc[i] = "done"
          /\ Len(votes_created[i]) + Len(proposals[i]) < LastView
    /\ \E j \in correct : \E k \in 1..Len(proposals[j]) :
          proposals[j][k].message.message_type.block.certificate.tag = "Happy"

\* C28: when every validator is honest no channel holds a NewView, no
\* leader's tally holds one, and every proposal carries Genesis, in view 1,
\* or a Happy QC, in a later view.
C28_NoNewView ==
    /\ \A c \in Channels : \A k \in 1..Len(chan[c]) :
          chan[c][k].message_type.tag \in { "Block", "Vote" }
    /\ \A i \in Validators :
          /\ new_views_received[i].etas = << >>
          /\ \A k \in 1..Len(proposals[i]) :
                LET block == proposals[i][k].message.message_type.block
                IN  IF proposals[i][k].view = 1
                    THEN block.certificate.tag = "Genesis"
                    ELSE block.certificate.tag = "Happy"


(***************************************************************************)
(* Properties of self_vote.                                                *)
(***************************************************************************)

\* C29 witness: a validator that voted in two views leads the view after the
\* second, its tally seeded with the vote of that view alone.
C29_SeededAfterTwoVotes ==
    \E i \in Honest :
        /\ pc[i] = "primary"
        /\ Len(votes_created[i]) >= 2
        /\ DOMAIN votes_received[i] = { Last(votes_created[i]).vote }
        /\ Last(votes_created[i]).view = current_view[i] - 1

\* C29: when primary_logic starts for view v the tally holds nothing, or the
\* one Vote of view v - 1 that this validator made in view v - 1, under its
\* own key; self_vote is empty from then on, and is occupied only between a
\* vote and the start of the next view's primary_logic (or after the last
\* view).
C29_SelfVoteFresh ==
    [][ \A i \in Honest :
          /\ ( pc'[i] = "primary" /\ current_view'[i] # current_view[i] ) =>
                /\ self_vote'[i] = NoneValue
                /\ \A vote \in DOMAIN votes_received'[i] :
                      /\ vote.view = current_view'[i] - 1
                      /\ votes_received'[i][vote].peers = << i >>
                      /\ Voted(i)
                      /\ Last(votes_created'[i]).vote = vote
                      /\ Last(votes_created'[i]).view = current_view'[i] - 1
          /\ self_vote'[i] # NoneValue =>
                /\ pc'[i] \in { "done", "panic" }
                /\ self_vote'[i].value.message_type.vote.view = current_view'[i] ]_vars


(***************************************************************************)
(* Properties of the channels.                                             *)
(***************************************************************************)

\* C30 witness: a validator that has voted runs nonprimary_logic while a peer
\* that does not lead the view has a message queued for it.
C30_OthersQueued ==
    \E i \in Honest :
        /\ pc[i] = "nonprimary"
        /\ votes_created[i] # << >>
        /\ \E peer \in Validators \ { i, current_view[i] % n } :
              chan[<< peer, i >>] # << >>

\* C30: while a validator runs nonprimary_logic for view v, a step takes
\* nothing off the channels from the peers that do not lead v: what was
\* queued there stays, in order, at the head of the queue.
C30_OnlyLeaderChannel ==
    [][ \A i \in Honest :
          pc[i] = "nonprimary" =>
              \A peer \in Validators \ { i, current_view[i] % n } :
                  IsPrefix(chan[<< peer, i >>], chan'[<< peer, i >>]) ]_vars


(***************************************************************************)
(* Properties of the executed blocks.                                      *)
(***************************************************************************)

\* C31: the blocks a validator executes form a hash chain from genesis: the
\* first names the genesis marker as last_blockhash, every later one the
\* blockhash of the block executed just before it.
C31_ExecutedChain ==
    \A i \in Honest : \A k \in 1..Len(executed[i]) :
        executed[i][k].block.last_blockhash =
            IF k = 1 THEN GenesisMarker ELSE executed[i][k - 1].blockhash


(***************************************************************************)
(* Properties of the certificates a leader builds.                         *)
(***************************************************************************)

\* C32 witness: a leader has broadcast a Happy QC whose signers are not in
\* the order of their keys, its own key among them.
C32_UnorderedQC ==
    \E i \in Honest : \E k \in HappyProposals(i) :
        LET signers == proposals[i][k].message.message_type.block.certificate.qc.signers
        IN  /\ Contains(signers, i)
            /\ \E a, b \in 1..Len(signers) : a < b /\ signers[a] > signers[b]

\* C32: every Happy QC an honest leader builds from its tally passes
\* QC::valid for the quorum of every validator of the cluster.
C32_BuiltQCValid ==
    \A i \in Honest : \A k \in HappyProposals(i) : \A j \in Cluster :
        QC_valid(proposals[i][k].message.message_type.block.certificate.qc,
                 quorum(j))


\* C33: a Sad AggQC a leader builds from NewViews of more than 2n/3 distinct
\* peers, each with a valid Happy QC, passes AggQC::valid for the quorum of
\* every validator of the cluster.
C33_BuiltAggQCValid ==
    \A i \in Honest : \A p \in SadProposals(i) :
        LET aggqc == proposals[i][p].message.message_type.block.certificate.aggqc
        IN  ( /\ Len(aggqc.qcs) = Len(aggqc.signers)
              /\ \A k \in 1..Len(aggqc.qcs) : QC_valid(aggqc.qcs[k], quorum(i)) )
            => \A j \in Cluster : AggQC_valid(aggqc, quorum(j))


(***************************************************************************)
(* Properties of who votes.                                                *)
(***************************************************************************)

\* C34 witness: leaders of two views in a row have built QCs, each of n - 1
\* signers.
C34_TwoFullQCs ==
    \E i, j \in Honest :
        /\ \E k \in HappyProposals(i) :
              /\ proposals[i][k].view = 2
              /\ Len(proposals[i][k].message.message_type.block.certificate.qc.signers) = n - 1
        /\ \E k \in HappyProposals(j) :
              /\ proposals[j][k].view = 3
              /\ Len(proposals[j][k].message.message_type.block.certificate.qc.signers) = n - 1

\* C34: with honest validators only, no validator signs a vote of a view it
\* leads, and the leader of view qc.vote.view is not among the signers of a
\* QC a leader builds, which are n - 1 at most.
C34_LeaderDoesNotVote ==
    /\ \A i \in Validators : \A k \in 1..Len(votes_created[i]) :
          votes_created[i][k].vote.view % n # i
    /\ \A i \in Validators : \A k \in HappyProposals(i) :
          LET qc == proposals[i][k].message.message_type.block.certificate.qc
          IN  /\ ~Contains(qc.signers, qc.vote.view % n)
              /\ Len(qc.signers) <= n - 1


(***************************************************************************)
(* Properties of the votes in flight.                                      *)
(***************************************************************************)

====
